---- MODULE Spec2Model ----
(***************************************************************************)
(* Model of the telegram-smpp-bot bridge (src/main.go).                    *)
(*                                                                         *)
(* Inbound:  the SMPP session calls the handler f once for every inbound   *)
(*           PDU; f selects and decodes the text of a DeliverSM and hands  *)
(*           a relay line to sendMessage, which posts it to the chat API.  *)
(* Outbound: the HTTP handler turns a request into one tx.Submit, which is *)
(*           throttled by the shared rate limiter, and maps the result to  *)
(*           an HTTP status.                                               *)
(*                                                                         *)
(* Go strings are sequences of bytes (0..255).  A PDU field is modelled by *)
(* the value its String() method returns.                                  *)
(***************************************************************************)
EXTENDS Integers, Sequences, FiniteSets, TLC

VARIABLES
    config,     \* the Config record read at startup (read-only afterwards)
    crashed,    \* the process died of an unrecovered panic
    hpc,        \* inbound read loop: "idle" (reading) | "post" (f is blocked in
                \* http.Post) | "returned" (f has returned) | "dead"
    cur,        \* the PDU f was invoked with
    relay,      \* what sendMessage did for cur
    waited,     \* seconds the handler has been blocked in http.Post
    now,        \* outbound clock, milliseconds since the limiter was created
    lim,        \* the rate limiter: [tokens, last], tokens in ms of credit
    reqs        \* the HTTP requests, by connection slot

inVars  == <<hpc, cur, relay, waited>>
outVars == <<now, lim, reqs>>
vars    == <<config, crashed, hpc, cur, relay, waited, now, lim, reqs>>

----------------------------------------------------------------------------
(* Bounds of the model *)

MaxShortLen   == 2     \* generated short_message values have at most this many bytes
MaxPayloadLen == 1     \* generated message_payload values have at most this many bytes
MaxWait       == 11    \* the blocked-in-Post clock stops counting here (seconds)
MaxReqs       == 2     \* HTTP requests (connections) served
MaxTicks      == 2     \* the outbound clock stops after this many ticks
TickMs        == 50    \* milliseconds per tick of the outbound clock

----------------------------------------------------------------------------
(* Byte strings *)

RECURSIVE SeqsUpTo(_, _)
SeqsUpTo(S, n) ==
    IF n = 0 THEN {<<>>}
    ELSE LET shorter == SeqsUpTo(S, n - 1)
         IN  shorter \cup {Append(s, b) : s \in {t \in shorter : Len(t) = n - 1}, b \in S}

\* strings.HasPrefix
HasPrefix(s, p) == Len(s) >= Len(p) /\ SubSeq(s, 1, Len(p)) = p

\* string literals of the source, as bytes
StrSMSFrom == <<83, 77, 83, 32, 102, 114, 111, 109, 32>>   \* "SMS from "
StrTo      == <<32, 116, 111, 32>>                          \* " to "
StrColonNL == <<32, 58, 10>>                                \* " :\n"
StrAt      == <<64>>                                        \* "@"
StrTrue    == <<116, 114, 117, 101>>                        \* "true"
StrHTML    == <<72, 84, 77, 76>>                            \* "HTML"
StrHello   == <<104, 101, 108, 108, 111>>                   \* "hello"

\* strconv.Itoa for a byte, as pdufield.Fixed.String() prints data_coding
Digit(d) == 48 + d
Itoa(n) ==
    IF n < 10 THEN <<Digit(n)>>
    ELSE IF n < 100 THEN <<Digit(n \div 10), Digit(n % 10)>>
    ELSE <<Digit(n \div 100), Digit((n \div 10) % 10), Digit(n % 10)>>

----------------------------------------------------------------------------
(* The decoder: transform.String(utf16bom, s), where                       *)
(*   win16be  := unicode.UTF16(unicode.BigEndian, unicode.IgnoreBOM)       *)
(*   utf16bom := unicode.BOMOverride(win16be.NewDecoder())                 *)
(* The result is a Go string, that is the UTF-8 encoding of the decoded    *)
(* runes.                                                                  *)

\* U+FFFD, utf8.RuneError, in UTF-8
RuneErrorUTF8 == <<239, 191, 189>>

IsSurrogate(r)     == r >= 55296 /\ r <= 57343      \* 0xD800..0xDFFF
IsHighSurrogate(r) == r >= 55296 /\ r <= 56319      \* 0xD800..0xDBFF
IsLowSurrogate(r)  == r >= 56320 /\ r <= 57343      \* 0xDC00..0xDFFF

\* utf8.EncodeRune; a surrogate or an out-of-range rune encodes as U+FFFD
EncodeRune(r) ==
    IF r < 0 \/ r > 1114111 \/ IsSurrogate(r) THEN RuneErrorUTF8
    ELSE IF r < 128 THEN <<r>>
    ELSE IF r < 2048 THEN <<192 + (r \div 64), 128 + (r % 64)>>
    ELSE IF r < 65536 THEN
        <<224 + (r \div 4096), 128 + ((r \div 64) % 64), 128 + (r % 64)>>
    ELSE <<240 + (r \div 262144), 128 + ((r \div 4096) % 64),
           128 + ((r \div 64) % 64), 128 + (r % 64)>>

\* the 16-bit code unit at bytes i, i+1 of b
Unit(b, i, le) == IF le THEN b[i + 1] * 256 + b[i] ELSE b[i] * 256 + b[i + 1]

\* The UTF-16 decoder reads b from byte i on.  It yields the decoded text
\* and whether a malformation was met.  A malformed unit is replaced by
\* U+FFFD (lenient = TRUE), or decoding stops there and keeps what was
\* decoded so far (lenient = FALSE).
RECURSIVE UTF16Decode(_, _, _, _)
UTF16Decode(b, i, le, lenient) ==
    IF i > Len(b) THEN [text |-> <<>>, bad |-> FALSE]
    ELSE IF i = Len(b) THEN
        \* single trailing byte
        [text |-> IF lenient THEN RuneErrorUTF8 ELSE <<>>, bad |-> TRUE]
    ELSE
        LET x == Unit(b, i, le)
            pair == IsSurrogate(x) /\ i + 3 <= Len(b)
            x2 == IF pair THEN Unit(b, i + 2, le) ELSE 0
            \* a surrogate followed by a high surrogate: the second one is
            \* kept for the next iteration
            keep2 == pair /\ IsHighSurrogate(x2)
            good == IF ~IsSurrogate(x) THEN TRUE
                    ELSE pair /\ IsHighSurrogate(x) /\ IsLowSurrogate(x2)
            r == IF ~IsSurrogate(x) THEN x
                 ELSE IF good THEN (x - 55296) * 1024 + (x2 - 56320) + 65536
                 ELSE 65533
            size == IF pair /\ ~keep2 THEN 4 ELSE 2
        IN  IF ~good /\ ~lenient THEN [text |-> <<>>, bad |-> TRUE]
            ELSE LET rest == UTF16Decode(b, i + size, le, lenient)
                 IN  [text |-> EncodeRune(r) \o rest.text,
                      bad |-> ~good \/ rest.bad]

\* bomOverride.Transform: a leading FF FE selects little-endian, FE FF
\* big-endian, EF BB BF passes the rest through as UTF-8; without a mark the
\* fallback decoder (big-endian) reads everything.
BOMOverride(b, lenient) ==
    IF Len(b) >= 2 /\ b[1] = 255 /\ b[2] = 254 THEN UTF16Decode(b, 3, TRUE, lenient)
    ELSE IF Len(b) >= 2 /\ b[1] = 254 /\ b[2] = 255 THEN UTF16Decode(b, 3, FALSE, lenient)
    ELSE IF Len(b) >= 3 /\ b[1] = 239 /\ b[2] = 187 /\ b[3] = 191
        THEN [text |-> SubSeq(b, 4, Len(b)), bad |-> FALSE]
    ELSE UTF16Decode(b, 1, FALSE, lenient)

\* The results transform.String(utf16bom, s) can give: [text, err].
\* Well-formed input decodes without error.  On malformed input the
\* decoder either substitutes U+FFFD and reports no error, or reports the
\* error and returns the text decoded before it.
TransformString(s) ==
    IF s = <<>> THEN {[text |-> <<>>, err |-> FALSE]}
    ELSE LET l == BOMOverride(s, TRUE)
             p == BOMOverride(s, FALSE)
         IN  IF ~l.bad THEN {[text |-> l.text, err |-> FALSE]}
             ELSE {[text |-> l.text, err |-> FALSE], [text |-> p.text, err |-> TRUE]}

\* the chosen bytes are not well-formed UTF-16 (after the byte-order mark)
Malformed(s) == s # <<>> /\ BOMOverride(s, TRUE).bad

----------------------------------------------------------------------------
(* Configuration and inbound PDUs *)

\* Config values the relay reads: Chattype, Chatid, Chattopic.  A chat id
\* may be a channel name, which starts with "@".
ConfigSet ==
    { [Chattype |-> "chat",  Chatid |-> <<49>>,     Chattopic |-> <<>>],
      [Chattype |-> "topic", Chatid |-> <<49>>,     Chattopic |-> <<55>>],
      [Chattype |-> "topic", Chatid |-> <<64, 99>>, Chattopic |-> <<64, 116>>] }

\* header IDs
DeliverSMID == "DeliverSM"
KindSet     == {DeliverSMID, "DataSM"}

\* data_coding values: default alphabet, Latin-1, UCS2
CodingSet == {0, 3, 8}

\* bytes the generated texts are made of: NUL, "@", a surrogate lead byte
ByteSet == {0, 64, 216}

\* longer texts: "hello"; "@" in UTF-16 after a big-endian and after a
\* little-endian mark; a surrogate pair; "@" after a UTF-8 mark
SampleTexts ==
    { StrHello,
      <<254, 255, 0, 64>>, <<255, 254, 64, 0>>,
      <<216, 0, 220, 0>>, <<239, 187, 191, 64>> }

ShortSet   == SeqsUpTo(ByteSet, MaxShortLen) \cup SampleTexts
PayloadSet == SeqsUpTo(ByteSet, MaxPayloadLen) \cup {StrHello, <<254, 255, 0, 64>>}
SrcSet     == {<<49, 50, 51, 52, 53>>, <<64>>}         \* "12345", "@"
DstSet     == {<<57, 57, 57>>, <<64, 57>>}             \* "999", "@9"

\* the message_payload TLV is optional: tlv[pdutlv.TagMessagePayload] is nil
\* when the PDU carries none
NoTLV  == [present |-> FALSE, data |-> <<>>]
TLVSet == {NoTLV} \cup {[present |-> TRUE, data |-> d] : d \in PayloadSet}

PDUSet ==
    [kind : KindSet, coding : CodingSet, src : SrcSet, dst : DstSet,
     short : ShortSet, payload : TLVSet]

NoPDU ==
    [kind |-> "none", coding |-> 0, src |-> <<>>, dst |-> <<>>,
     short |-> <<>>, payload |-> NoTLV]

----------------------------------------------------------------------------
(* The inbound handler f (main.go 126-160) *)

\* (variant: the payload is preferred whenever the PDU carries one)
TextSourcePayloadFirst(p) ==
    IF p.payload.present /\ p.payload.data # <<>> THEN "payload" ELSE "short"

\* lines 137-146: the field the text is taken from
TextSource(p) == IF p.short = <<>> THEN "payload" ELSE "short"

\* the value of txt after line 146
Chosen(p) ==
    IF TextSource(p) = "short" THEN [present |-> TRUE, data |-> p.short]
    ELSE p.payload

\* (variant: every coding is decoded as UTF-16)
UsesUTF16Always(p) == TRUE

\* lines 147-154: the decode rule and its results [text, err]
UsesUTF16(p) == Itoa(p.coding) = <<56>>          \* coding.String() == "8"

Decode(p, txt) ==
    IF UsesUTF16(p) THEN TransformString(txt)
    ELSE {[text |-> txt, err |-> FALSE]}

\* (variant: the text is relayed without the "SMS from" header)
RelayLineBare(p, text) == text

\* line 158: the argument of sendMessage
RelayLine(p, text) == StrSMSFrom \o p.src \o StrTo \o p.dst \o StrColonNL \o text

\* (variant: no switch on the header ID)
HandlesAny(p) == TRUE

\* line 130: the switch on the header ID
Handles(p) == p.kind = DeliverSMID

\* What one invocation of f does, up to its call of sendMessage:
\*   called  sendMessage is called, with line
\*   panics  txt.String() is called on the nil message_payload
\*   source  the field txt was taken from; rules: the decode rules applied
\*   err     the decoder returned an error; logs: what was logged
IdleResult ==
    [called |-> FALSE, panics |-> FALSE, source |-> "none", rules |-> {},
     err |-> FALSE, text |-> <<>>, line |-> <<>>, logs |-> {}]

\* (variant: f returns on a decode error)
AfterDecodeAbort(p, d) ==
    IF d.err THEN [IdleResult EXCEPT !.source = TextSource(p), !.err = TRUE,
                                     !.logs = {"decode"}]
    ELSE [called |-> TRUE, panics |-> FALSE, source |-> TextSource(p),
          rules |-> {IF UsesUTF16(p) THEN "utf16" ELSE "raw"},
          err |-> FALSE, text |-> d.text, line |-> RelayLine(p, d.text),
          logs |-> {}]

\* lines 149-158: a decode error is logged, and the text decoded is relayed
\* whether or not there was one
AfterDecode(p, d) ==
    [called |-> TRUE, panics |-> FALSE, source |-> TextSource(p),
     rules |-> {IF UsesUTF16(p) THEN "utf16" ELSE "raw"},
     err |-> d.err, text |-> d.text, line |-> RelayLine(p, d.text),
     logs |-> IF d.err THEN {"decode"} ELSE {}]

HandlerResults(p) ==
    IF ~Handles(p) THEN {IdleResult}
    ELSE IF ~Chosen(p).present THEN
        {[IdleResult EXCEPT !.panics = TRUE, !.source = TextSource(p)]}
    ELSE {AfterDecode(p, d) : d \in Decode(p, Chosen(p).data)}

----------------------------------------------------------------------------
(* The relay client: createForm (38-66) and sendMessage (68-105) *)

\* lines 70-75: the form fields
Form(m) ==
    LET keys == {"disable_web_page_preview", "parse_mode", "chat_id", "text"}
                \cup (IF config.Chattype = "topic" THEN {"reply_to_message_id"} ELSE {})
    IN  [k \in keys |->
            CASE k = "disable_web_page_preview" -> StrTrue
              [] k = "parse_mode"               -> StrHTML
              [] k = "chat_id"                  -> config.Chatid
              [] k = "reply_to_message_id"      -> config.Chattopic
              [] k = "text"                     -> m]

\* createForm: a value starting with "@" names a file to attach, every other
\* value is written as a plain field.  canOpen: os.Open succeeds.
createForm(form, canOpen) ==
    LET fileKeys == {k \in DOMAIN form : HasPrefix(form[k], StrAt)}
    IN  [err       |-> fileKeys # {} /\ ~canOpen,
         fileKeys  |-> fileKeys,
         plainKeys |-> DOMAIN form \ fileKeys]

NoForm == [err |-> FALSE, fileKeys |-> {}, plainKeys |-> {}]

\* relay: the record of what was done for cur
\*   h        the handler's result (HandlerResults)
\*   calls    calls of sendMessage;  posts: HTTP requests issued
\*   outcome  "none" | "pending" | "transport" | "response"
\*   returned sendMessage returned to the handler
NoRelay(h) ==
    [h |-> h, calls |-> 0, posts |-> 0, form |-> NoForm, logs |-> h.logs,
     outcome |-> "none", status |-> 0, readErr |-> FALSE, returned |-> FALSE]

\* sendMessage up to and including http.Post (68-84).  A createForm error
\* is logged and the request is posted all the same.
sendMessageStart(h, canOpen) ==
    LET form == createForm(Form(h.line), canOpen)
    IN  [h |-> h, calls |-> 1, posts |-> 1, form |-> form,
         logs |-> h.logs \cup (IF form.err THEN {"form"} ELSE {}),
         outcome |-> "pending", status |-> 0, readErr |-> FALSE, returned |-> FALSE]

\* HTTP statuses the chat API answers with
StatusSet == {200, 204, 500}

\* lines 92-104: what sendMessage logs about a response
ResponseLogs(status, readErr) ==
    IF readErr THEN {"read"}
    ELSE IF status # 200 THEN {"status"}
    ELSE {}

----------------------------------------------------------------------------
(* Inbound actions *)

\* f(p): f runs to its return, to its panic, or to the point where
\* sendMessage blocks in http.Post.
Handler(p) ==
    /\ \E h \in HandlerResults(p), canOpen \in BOOLEAN :
         /\ cur' = p
         /\ waited' = 0
         /\ IF h.panics
              THEN /\ relay' = NoRelay(h)
                   /\ hpc' = "dead"
                   /\ crashed' = TRUE
            ELSE IF ~h.called
              THEN /\ relay' = NoRelay(h)
                   /\ hpc' = "returned"
                   /\ crashed' = FALSE
            ELSE   /\ relay' = sendMessageStart(h, canOpen)
                   /\ hpc' = "post"
                   /\ crashed' = FALSE
    /\ UNCHANGED <<config, now, lim, reqs>>

\* The session's read loop reads a PDU and invokes the handler with it.
Deliver ==
    /\ ~crashed
    /\ hpc = "idle"
    /\ \E p \in PDUSet : Handler(p)

\* http.Post returns (nil, err).  Line 85, defer resp.Body.Close(), reads
\* resp.Body of the nil response: the goroutine panics before anything is
\* logged, and nothing recovers it.
PostTransportError ==
    /\ ~crashed
    /\ hpc = "post"
    /\ relay' = [relay EXCEPT !.outcome = "transport"]
    /\ hpc' = "dead"
    /\ crashed' = TRUE
    /\ waited' = 0
    /\ UNCHANGED <<config, cur, now, lim, reqs>>

\* http.Post returns a response; the body is read (or fails to be), the
\* condition is logged and sendMessage and f return.
PostResponse(status, readErr) ==
    /\ ~crashed
    /\ hpc = "post"
    /\ relay' = [relay EXCEPT !.outcome = "response", !.status = status,
                              !.readErr = readErr, !.returned = TRUE,
                              !.logs = @ \cup ResponseLogs(status, readErr)]
    /\ hpc' = "returned"
    /\ waited' = 0
    /\ UNCHANGED <<config, crashed, cur, now, lim, reqs>>

\* A second passes while the chat API has not answered.  http.Post uses
\* http.DefaultClient, whose Timeout is zero: nothing ends the wait.
PostWaits ==
    /\ ~crashed
    /\ hpc = "post"
    /\ waited < MaxWait
    /\ waited' = waited + 1
    /\ UNCHANGED <<config, crashed, hpc, cur, relay, now, lim, reqs>>

\* f has returned: the session's read loop goes on to the next PDU.
ReadLoop ==
    /\ ~crashed
    /\ hpc = "returned"
    /\ hpc' = "idle"
    /\ cur' = NoPDU
    /\ relay' = NoRelay(IdleResult)
    /\ waited' = 0
    /\ UNCHANGED <<config, crashed, now, lim, reqs>>

InboundNext ==
    \/ Deliver
    \/ ReadLoop
    \/ PostTransportError
    \/ \E status \in StatusSet, readErr \in BOOLEAN : PostResponse(status, readErr)
    \/ PostWaits

InitInbound ==
    /\ hpc = "idle"
    /\ cur = NoPDU
    /\ relay = NoRelay(IdleResult)
    /\ waited = 0

----------------------------------------------------------------------------
(* The rate limiter: rate.NewLimiter(rate.Limit(10), 1), main.go 161 *)

LimiterRate  == 10     \* tokens per second
LimiterBurst == 1      \* bucket capacity, in tokens

\* milliseconds of credit one token costs
TokenMs == 1000 \div LimiterRate

\* the limiter's tokens at time t, as credit in milliseconds: what it held
\* at lim.last plus the time since, capped at the burst
Advance(l, t) ==
    LET credit == l.tokens + (t - l.last)
    IN  IF credit > LimiterBurst * TokenMs THEN LimiterBurst * TokenMs ELSE credit

\* (variant: no limiter is attached, the caller never waits)
ReserveUnthrottled(l, t) == [lim |-> l, toAct |-> t]

\* Limiter.Wait reserves one token at time t: the token is taken at once
\* and, when the bucket is overdrawn, the caller sleeps until it is repaid.
Reserve(l, t) ==
    LET credit == Advance(l, t) - TokenMs
    IN  [lim   |-> [tokens |-> credit, last |-> t],
         toAct |-> IF credit < 0 THEN t - credit ELSE t]

----------------------------------------------------------------------------
(* The HTTP submission endpoint (main.go 176-192) *)

StatusOK                 == 200    \* io.WriteString on a fresh ResponseWriter
StatusBadRequest         == 400
StatusServiceUnavailable == 503

StrOops == <<79, 111, 112, 115, 46>>       \* "Oops."
StrNL   == <<10>>                           \* http.Error ends the body with "\n"

FinalDeliveryReceipt == "FinalDeliveryReceipt"

\* the forms a request can carry: all parameters, none, or some
ParamValue == [src |-> <<65>>, dst |-> <<66>>, text |-> <<104, 105>>]
RequestForms ==
    {[k \in ks |-> ParamValue[k]] :
        ks \in {{"src", "dst", "text"}, {}, {"src"}, {"dst", "text"}}}

\* r.FormValue(key): the empty string when the parameter is absent
FormValue(form, key) == IF key \in DOMAIN form THEN form[key] ELSE <<>>

\* lines 177-182: the smpp.ShortMessage handed to tx.Submit
ShortMessage(form) ==
    [Src |-> FormValue(form, "src"), Dst |-> FormValue(form, "dst"),
     Text |-> FormValue(form, "text"), Register |-> FinalDeliveryReceipt]

\* results of tx.Submit: a response identifier, smpp.ErrNotConnected, or
\* another error with its message
ErrNotConnected == [kind |-> "notconnected", text |-> <<110, 99>>]
SubmitErrors    == {[kind |-> "other", text |-> <<116, 111>>]}     \* a timeout
SubmitOKs       == {[kind |-> "ok", text |-> <<52, 50>>]}          \* RespID "42"

\* (variant: err != nil is tested before err == smpp.ErrNotConnected)
ResponseErrFirst(res) ==
    IF res.kind # "ok"
        THEN [status |-> StatusBadRequest, body |-> res.text \o StrNL]
    ELSE [status |-> StatusOK, body |-> res.text]

\* lines 183-191: the response for a result of tx.Submit
Response(res) ==
    IF res = ErrNotConnected
        THEN [status |-> StatusServiceUnavailable, body |-> StrOops \o StrNL]
    ELSE IF res.kind # "ok"
        THEN [status |-> StatusBadRequest, body |-> res.text \o StrNL]
    ELSE [status |-> StatusOK, body |-> res.text]

NoResult == [kind |-> "none", text |-> <<>>]

\* a request slot
\*   pc         "idle" | "submit" (in tx.Submit, before the limiter)
\*              | "wait" (holds a reservation) | "done"
\*   submits    calls of tx.Submit;  sm: the message of the last call
\*   toAct      when the reserved token is granted (-1: none reserved)
\*   sent       the session was invoked with sm
\*   responses  the responses written
IdleReq ==
    [pc |-> "idle", form |-> <<>>, submits |-> 0, sm |-> ShortMessage(<<>>),
     toAct |-> -1, sent |-> FALSE, result |-> NoResult,
     responses |-> <<>>]

InitOutbound ==
    /\ now = 0
    /\ lim = [tokens |-> LimiterBurst * TokenMs, last |-> 0]
    /\ reqs = [i \in 1..MaxReqs |-> IdleReq]

\* A request arrives; the handler builds the message and calls tx.Submit.
HandleRequest(i, form) ==
    /\ ~crashed
    /\ reqs[i].pc = "idle"
    /\ reqs' = [reqs EXCEPT ![i] = [@ EXCEPT !.pc = "submit", !.form = form,
                                               !.submits = @ + 1,
                                               !.sm = ShortMessage(form)]]
    /\ UNCHANGED <<config, crashed, inVars, now, lim>>

\* The handler's tail, lines 183-191: one response for the result.
Respond(r, res) ==
    [r EXCEPT !.pc = "done", !.result = res,
              !.responses = Append(@, Response(res))]

\* tx.Submit finds the session unbound and returns ErrNotConnected without
\* touching the limiter.
SubmitNotConnected(i) ==
    /\ ~crashed
    /\ reqs[i].pc = "submit"
    /\ reqs' = [reqs EXCEPT ![i] = Respond(@, ErrNotConnected)]
    /\ UNCHANGED <<config, crashed, inVars, now, lim>>

\* tx.Submit reserves a token: RateLimiter.Wait.
LimiterReserve(i) ==
    /\ ~crashed
    /\ reqs[i].pc = "submit"
    /\ LET rv == Reserve(lim, now)
       IN  /\ lim' = rv.lim
           /\ reqs' = [reqs EXCEPT ![i] = [@ EXCEPT !.pc = "wait",
                                                    !.toAct = rv.toAct]]
    /\ UNCHANGED <<config, crashed, inVars, now>>

\* (variant: the handler submits again when the submission fails)
SubmitReturnsRetry(i, res) ==
    /\ ~crashed
    /\ reqs[i].pc = "wait"
    /\ now >= reqs[i].toAct
    /\ reqs' = [reqs EXCEPT ![i] =
                  IF res.kind = "other" /\ @.submits < 2
                  THEN [@ EXCEPT !.pc = "submit", !.sent = TRUE, !.submits = @ + 1]
                  ELSE Respond([@ EXCEPT !.sent = TRUE], res)]
    /\ UNCHANGED <<config, crashed, inVars, now, lim>>

\* The reservation is due: the session is invoked, answers (or fails), and
\* the handler responds.
SubmitReturns(i, res) ==
    /\ ~crashed
    /\ reqs[i].pc = "wait"
    /\ now >= reqs[i].toAct
    /\ reqs' = [reqs EXCEPT ![i] = Respond([@ EXCEPT !.sent = TRUE], res)]
    /\ UNCHANGED <<config, crashed, inVars, now, lim>>

\* time passes
Tick ==
    /\ ~crashed
    /\ now < MaxTicks * TickMs
    /\ now' = now + TickMs
    /\ UNCHANGED <<config, crashed, inVars, lim, reqs>>

OutboundNext ==
    \/ \E i \in 1..MaxReqs, form \in RequestForms : HandleRequest(i, form)
    \/ \E i \in 1..MaxReqs : SubmitNotConnected(i)
    \/ \E i \in 1..MaxReqs : LimiterReserve(i)
    \/ \E i \in 1..MaxReqs, res \in SubmitOKs \cup SubmitErrors \cup {ErrNotConnected} :
          SubmitReturns(i, res)
    \/ Tick

----------------------------------------------------------------------------
(* Specifications *)

Init ==
    /\ config \in ConfigSet
    /\ crashed = FALSE
    /\ InitInbound
    /\ InitOutbound

\* the inbound side alone: the session's read loop and the relay
InboundSpec == Init /\ [][InboundNext]_vars

\* the outbound side alone: the HTTP server and the limiter
OutboundSpec == Init /\ [][OutboundNext]_vars

Next == InboundNext \/ OutboundNext
Spec == Init /\ [][Next]_vars

----------------------------------------------------------------------------
(* Properties of the inbound side, checked under InboundSpec *)

\* f has been invoked with cur and has got as far as it gets before the relay
\* answers
Invoked == hpc # "idle"

\* the bytes the text is to be taken from, read off the PDU
SourceBytes(p) == IF p.short # <<>> THEN p.short ELSE p.payload.data
HasSource(p)   == p.short # <<>> \/ p.payload.present

\* "SMS from <source> to <destination> :\n"
Header(p) == StrSMSFrom \o p.src \o StrTo \o p.dst \o StrColonNL

\* the relay's failure outcomes
TransportFailed == relay.outcome = "transport"
BodyReadFailed  == relay.outcome = "response" /\ relay.readErr
StatusFailed    == relay.outcome = "response" /\ ~relay.readErr
                   /\ (relay.status < 200 \/ relay.status > 299)

\* C1: on a transport error, a non-2xx status or a body-read error the
\* relay logs the condition, has issued at most one HTTP request and has
\* returned normally to the handler, and the process lives on to handle the
\* next PDU.
C1_RelayFailureIsLoggedAndReturns ==
    /\ TransportFailed =>
          "transport" \in relay.logs /\ relay.posts <= 1 /\ relay.returned
          /\ hpc = "returned" /\ ~crashed
    /\ BodyReadFailed =>
          "read" \in relay.logs /\ relay.posts <= 1 /\ relay.returned
          /\ hpc = "returned" /\ ~crashed
    /\ StatusFailed =>
          "status" \in relay.logs /\ relay.posts <= 1 /\ relay.returned
          /\ hpc = "returned" /\ ~crashed

C3_OnlyDeliverSMIsRelayed ==
    /\ cur.kind # DeliverSMID =>
          relay.calls = 0 /\ relay.posts = 0 /\ hpc \in {"idle", "returned"}
    /\ relay.calls > 0 => cur.kind = DeliverSMID

\* f has returned from a PDU of another kind that carries a text
C3_Witness ==
    /\ hpc = "returned" /\ cur.kind = "DataSM" /\ cur.short # <<>>
    /\ relay.calls = 0

\* the relay's request timeout the design asks for, in seconds
RelayTimeout == 10

\* C6: the relay call is bounded by its timeout: the handler is never
\* blocked in the HTTP request for longer than that.
C6_RelayCallIsBounded ==
    hpc = "post" => waited <= RelayTimeout

C10_TextIsNeverAFile ==
    relay.calls > 0 =>
        /\ HasPrefix(relay.h.line, <<83, 77, 83, 32, 102, 114, 111, 109, 32>>)
        /\ ~HasPrefix(relay.h.line, <<64>>)
        /\ "text" \in relay.form.plainKeys
        /\ "text" \notin relay.form.fileKeys
        /\ relay.form.fileKeys \subseteq {"chat_id", "reply_to_message_id"}

\* a text starting with "@" has been relayed, with chat_id attached as a file
C10_Witness ==
    /\ relay.calls = 1
    /\ HasPrefix(relay.h.text, <<64>>)
    /\ "chat_id" \in relay.form.fileKeys

----------------------------------------------------------------------------
(* Properties of the outbound side, checked under OutboundSpec *)

\* C4: a request gets one response, fixed by the result of its submission:
\* 503 and a fixed body for not-connected, 400 and the error's text for
\* another error, 200 and the response identifier on success.
C4_ResponseFollowsSubmitResult ==
    \A i \in 1..MaxReqs :
        LET r == reqs[i]
        IN  /\ Len(r.responses) <= 1
            /\ r.pc # "done" => r.responses = <<>>
            /\ r.pc = "done" =>
                 /\ Len(r.responses) = 1
                 /\ r.responses[1].status \in {200, 400, 503}
                 /\ r.result.kind \in {"notconnected", "other", "ok"}
                 /\ r.result.kind = "notconnected" =>
                       r.responses[1] = [status |-> 503, body |-> <<79, 111, 112, 115, 46, 10>>]
                 /\ r.result.kind = "other" =>
                       r.responses[1] = [status |-> 400, body |-> r.result.text \o <<10>>]
                 /\ r.result.kind = "ok" =>
                       r.responses[1] = [status |-> 200, body |-> r.result.text]

\* one request was answered 503 and another 200
C4_Witness ==
    \E i, j \in 1..MaxReqs :
        /\ reqs[i].pc = "done" /\ reqs[i].result.kind = "notconnected"
        /\ reqs[i].responses[1].status = 503
        /\ reqs[j].pc = "done" /\ reqs[j].result.kind = "ok"
        /\ reqs[j].responses[1].status = 200

\* C5: the session is invoked only with a token of the shared limiter, once
\* it is granted; the bucket never holds more than one token; so at most one
\* submission is made at once and at most one more per 100 ms after that.
C5_SubmissionsAreThrottled ==
    /\ \A i \in 1..MaxReqs :
          reqs[i].sent => reqs[i].toAct >= 0 /\ reqs[i].toAct <= now
    /\ Advance(lim, now) * 10 <= 1000
    /\ Cardinality({i \in 1..MaxReqs : reqs[i].sent}) <= 1 + (now \div 100)

\* two requests arrived at the same instant: one was submitted at once, the
\* other holds a reservation that is not yet due
C5_Witness ==
    \E i, j \in 1..MaxReqs :
        /\ now = 0
        /\ reqs[i].sent
        /\ reqs[j].pc = "wait" /\ reqs[j].toAct > now

\* C8: a request makes one submission, built from its src, dst and text
\* parameters (empty when absent) with the final delivery receipt requested,
\* and never a second one, whatever the result.
C8_OneSubmissionPerRequest ==
    \A i \in 1..MaxReqs :
        LET r == reqs[i]
            param(k) == IF k \in DOMAIN r.form THEN r.form[k] ELSE <<>>
        IN  /\ r.submits <= 1
            /\ r.pc # "idle" =>
                 /\ r.submits = 1
                 /\ r.sm = [Src |-> param("src"), Dst |-> param("dst"),
                            Text |-> param("text"),
                            Register |-> "FinalDeliveryReceipt"]

\* a request without dst and text was answered with an error after its one
\* submission
C8_Witness ==
    \E i \in 1..MaxReqs :
        /\ reqs[i].pc = "done" /\ reqs[i].result.kind = "other"
        /\ DOMAIN reqs[i].form = {"src"}
        /\ reqs[i].sm.Dst = <<>>
        /\ reqs[i].submits = 1

====
